---- MODULE Spec2Model ----
(***************************************************************************)
(* Model of image_viewer.py: the ImageViewer window's navigation state     *)
(* (image_paths, current_index), the folder it browses, the "deleted"      *)
(* subfolder, and the pickle file last_image_index.pkl.                    *)
(*                                                                         *)
(* File names are tuples of one-character strings, paths are pairs         *)
(* <<folder, name>>, and the pickle file is a byte sequence.               *)
(*                                                                         *)
(* An exception raised in a button or key handler is printed by PySide2    *)
(* and the event loop goes on with the state the handler left; one raised  *)
(* in __init__ leaves the constructor and ends the process.                *)
(***************************************************************************)
EXTENDS Integers, Sequences, FiniteSets, TLC

\* ------------------------------------------------------------------ bounds
\* Largest number of files the browsed folder holds before the first start.
MaxFiles == 3
\* Largest index a pickle file left by an earlier run may hold.
MaxStored == 3
\* Largest number of files already lying in the deleted folder.
MaxPreexisting == 1

\* ------------------------------------------------------- names and strings
a_png == <<"a", ".", "p", "n", "g">>
b_jpg == <<"b", ".", "j", "p", "g">>
c_gif == <<"c", ".", "g", "i", "f">>
B_JPG == <<"B", ".", "J", "P", "G">>
n_txt == <<"n", ".", "t", "x", "t">>
A_PNG == <<"A", ".", "P", "N", "G">>

\* The file names a folder of the model may hold.
Universe == {a_png, b_jpg, c_gif, B_JPG, n_txt}

\* The names a file already lying in the deleted folder may have.
PreexistingNames == {a_png, b_jpg}

\* What the user may type into the jump-to box.
JumpTexts == Universe \cup {A_PNG}

\* Code point of a character (Python compares str by code point).
ord(ch) ==
    CASE ch = "." -> 46
      [] ch = "A" -> 65  [] ch = "B" -> 66  [] ch = "G" -> 71
      [] ch = "J" -> 74  [] ch = "N" -> 78  [] ch = "P" -> 80
      [] ch = "a" -> 97  [] ch = "b" -> 98  [] ch = "c" -> 99
      [] ch = "d" -> 100 [] ch = "e" -> 101 [] ch = "f" -> 102
      [] ch = "g" -> 103 [] ch = "i" -> 105 [] ch = "j" -> 106
      [] ch = "l" -> 108 [] ch = "m" -> 109 [] ch = "n" -> 110
      [] ch = "p" -> 112 [] ch = "t" -> 116 [] ch = "x" -> 120

\* str.lower() on one character.
lower_char(ch) ==
    CASE ch = "A" -> "a" [] ch = "B" -> "b" [] ch = "G" -> "g"
      [] ch = "J" -> "j" [] ch = "N" -> "n" [] ch = "P" -> "p"
      [] OTHER -> ch

\* str.lower()
lower(s) == [i \in 1..Len(s) |-> lower_char(s[i])]

\* Python's s < t on str: lexicographic by code point, a proper prefix first.
RECURSIVE str_less(_, _)
str_less(s, t) ==
    IF t = <<>> THEN FALSE
    ELSE IF s = <<>> THEN TRUE
    ELSE IF ord(Head(s)) # ord(Head(t)) THEN ord(Head(s)) < ord(Head(t))
    ELSE str_less(Tail(s), Tail(t))

\* sorted(names): the names of a set in ascending order.
RECURSIVE sorted(_)
sorted(S) ==
    IF S = {} THEN <<>>
    ELSE LET m == CHOOSE x \in S : \A y \in S \ {x} : str_less(x, y)
         IN  <<m>> \o sorted(S \ {m})

\* os.path.splitext(name)[1]: from the last dot on, unless that dot is one of
\* the name's leading dots.
splitext_ext(name) ==
    LET dots == {i \in 1..Len(name) : name[i] = "."}
    IN  IF dots = {} THEN <<>>
        ELSE LET d == CHOOSE i \in dots : \A j \in dots : j <= i
             IN  IF \A j \in 1..d : name[j] = "." THEN <<>>
                 ELSE SubSeq(name, d, Len(name))

image_extensions ==
    { <<".", "j", "p", "g">>, <<".", "j", "p", "e", "g">>, <<".", "p", "n", "g">>,
      <<".", "b", "m", "p">>, <<".", "g", "i", "f">> }

\* folder_path = "images"; a path is the pair the join builds.
folder_path == <<"i", "m", "a", "g", "e", "s">>
deleted_name == <<"d", "e", "l", "e", "t", "e", "d">>
path_join(dir, name) == <<dir, name>>
basename(path) == path[2]

\* ----------------------------------------------------- Python list access
\* lst[i] is defined for -len <= i < len; a negative i counts from the end.
py_valid(i, n) == -n <= i /\ i < n
py_pos(i, n) == IF i < 0 THEN i + n + 1 ELSE i + 1
py_get(lst, i) == lst[py_pos(i, Len(lst))]
\* lst.pop() in place of lst.pop(i): always drops the last element.
py_pop_last(lst, i) == SubSeq(lst, 1, Len(lst) - 1)

\* Removal by swapping the last element into the hole.
py_pop_swap(lst, i) ==
    LET p == py_pos(i, Len(lst))
    IN  [k \in 1..(Len(lst) - 1) |-> IF k = p THEN lst[Len(lst)] ELSE lst[k]]

\* lst.pop(i)
py_pop(lst, i) ==
    LET p == py_pos(i, Len(lst))
    IN  SubSeq(lst, 1, p - 1) \o SubSeq(lst, p + 1, Len(lst))
\* The paths compared without regard to case.
py_index_nocase(lst, x) ==
    IF \E i \in 1..Len(lst) : lower(lst[i][2]) = lower(x[2])
    THEN (CHOOSE i \in 1..Len(lst) : lower(lst[i][2]) = lower(x[2])) - 1
    ELSE -1

\* lst.index(x): position of the first element equal to x, -1 for ValueError.
py_index(lst, x) ==
    IF \E i \in 1..Len(lst) : lst[i] = x
    THEN (CHOOSE i \in 1..Len(lst) : lst[i] = x /\ \A j \in 1..(i - 1) : lst[j] # x) - 1
    ELSE -1

\* ----------------------------------------------------------------- pickle
\* pickle.dump(k, f): PROTO 3, then BININT1 (K) for 0..255, BININT2 (M) for
\* 256..65535, BININT (J, 4 bytes little-endian two's complement) otherwise,
\* then STOP (.).  \div rounds down, so the bytes of a negative k are those of
\* its two's complement.
le_bytes(v, n) == [i \in 1..n |-> (v \div (256 ^ (i - 1))) % 256]

pickle_dump(k) ==
    <<128, 3>> \o
    ( IF 0 <= k /\ k < 256 THEN <<75>> \o le_bytes(k, 1)
      ELSE IF 256 <= k /\ k < 65536 THEN <<77>> \o le_bytes(k, 2)
      ELSE <<74>> \o le_bytes(k, 4) ) \o
    <<46>>

\* Little-endian value of a byte string; `signed` reads the last byte as the
\* two's complement sign byte.
RECURSIVE le_value(_, _)
le_value(bs, signed) ==
    IF bs = <<>> THEN 0
    ELSE IF Len(bs) = 1
         THEN IF signed /\ bs[1] >= 128 THEN bs[1] - 256 ELSE bs[1]
    ELSE bs[1] + 256 * le_value(Tail(bs), signed)

\* pickle.load(f) on the bytes of the file: [exc |-> "none", val |-> k] or the
\* exception it raises.
pickle_load(bytes) ==
    LET body == IF Len(bytes) >= 2 /\ bytes[1] = 128 THEN SubSeq(bytes, 3, Len(bytes))
                ELSE bytes
        width == IF body = <<>> THEN 0
                 ELSE CASE body[1] = 75 -> 1 [] body[1] = 77 -> 2 [] body[1] = 74 -> 4
                        [] OTHER -> 0
    IN  IF bytes = <<>> THEN [exc |-> "EOFError", val |-> 0]
        ELSE IF bytes[1] = 128 /\ (Len(bytes) < 2 \/ bytes[2] > 5)
             THEN [exc |-> "UnpicklingError", val |-> 0]
        ELSE IF body = <<>> THEN [exc |-> "EOFError", val |-> 0]
        ELSE IF width = 0 \/ Len(body) < 1 + width
             THEN [exc |-> "UnpicklingError", val |-> 0]
        ELSE IF Len(body) = 1 + width THEN [exc |-> "EOFError", val |-> 0]
        ELSE IF body[2 + width] # 46 THEN [exc |-> "UnpicklingError", val |-> 0]
        ELSE [exc |-> "none",
              val |-> le_value(SubSeq(body, 2, 1 + width), width = 4)]

\* ------------------------------------------------------------------ state
VARIABLES
    platform,          \* "posix" or "windows": decides what os.rename does
    folder,            \* names of the files in folder_path
    deleted_made,      \* whether folder_path/deleted exists
    deleted_folder,    \* per name: "absent", "preexisting" or "moved" in deleted/
    pkl,               \* last_image_index.pkl: [exists, bytes]
    phase,             \* "off", "running", or "crashed" (__init__ raised)
    image_paths,       \* self.image_paths
    current_index,     \* self.current_index
    image_name_label,  \* text of self.image_name_label
    err,               \* exception the last handler raised, "none" otherwise
    reported,          \* what the last handler printed
    lastOp,            \* the handler that ran last
    input_focused,     \* jump_to_input has the focus (it is read-only otherwise)
    lastKey,           \* key of the last event if it was a key press, else "none"
    at_start,          \* history: entries and deleted/ content at the last startup
    prev,              \* history: index, pickle file and entries before the last event
    trip               \* history: an advance off a non-last entry, and a retreat right after

vars == <<platform, folder, deleted_made, deleted_folder, pkl, phase, image_paths,
          current_index, image_name_label, err, reported, lastOp,
          input_focused, lastKey, at_start, prev, trip>>

env == <<platform, folder, deleted_made, deleted_folder>>

\* Index values an earlier run's pickle file may hold.
StoredValues == -1..MaxStored

\* File contents found at startup: a pickled index, an empty file, a file
\* that is no pickle.
StoredBytes == {pickle_dump(k) : k \in StoredValues} \cup {<<>>, <<0>>}

Init ==
    /\ platform \in {"posix", "windows"}
    /\ folder \in {S \in SUBSET Universe : Cardinality(S) <= MaxFiles}
    /\ deleted_made \in BOOLEAN
    /\ deleted_folder \in
         {[n \in Universe |-> IF n \in S THEN "preexisting" ELSE "absent"] :
            S \in {T \in SUBSET PreexistingNames :
                     Cardinality(T) <= (IF deleted_made THEN MaxPreexisting ELSE 0)}}
    /\ pkl \in {[exists |-> FALSE, bytes |-> <<>>]} \cup
               {[exists |-> TRUE, bytes |-> b] : b \in StoredBytes}
    /\ phase = "off"
    /\ image_paths = <<>>
    /\ current_index = 0
    /\ image_name_label = <<>>
    /\ err = "none"
    /\ reported = <<>>
    /\ lastOp = "none"
    /\ input_focused = FALSE
    /\ lastKey = "none"
    /\ at_start = [paths |-> <<>>, deleted |-> {}]
    /\ prev = [index |-> 0, pkl |-> pkl, paths |-> <<>>]
    /\ trip = [stage |-> "none", origin |-> prev]

\* ------------------------------------------------------------- operations
\* os.listdir(self.folder_path), called after the deleted folder was made.
listdir == folder \cup {deleted_name}

\* The extension compared as written, .lower() left out.
is_image_name_case_sensitive(file_name) == splitext_ext(file_name) \in image_extensions

\* get_image_paths
is_image_name(file_name) == lower(splitext_ext(file_name)) \in image_extensions

get_image_paths ==
    LET kept == SelectSeq(sorted(listdir), is_image_name)
    IN  [i \in 1..Len(kept) |-> path_join(folder_path, kept[i])]

\* load_last_image_index: only FileNotFoundError is caught.
load_last_image_index ==
    IF ~pkl.exists THEN [exc |-> "none", val |-> 0] ELSE pickle_load(pkl.bytes)

\* save_current_index
save_current_index(idx) == [exists |-> TRUE, bytes |-> pickle_dump(idx)]

\* set_image: reads image_paths[current_index] (IndexError when out of
\* range), sets the name label, then saves the index.
set_image_raises(paths, idx) == ~py_valid(idx, Len(paths))

set_image(paths, idx) ==
    IF set_image_raises(paths, idx)
    THEN /\ err' = "IndexError"
         /\ UNCHANGED <<image_name_label, pkl>>
    ELSE /\ err' = "none"
         /\ image_name_label' = basename(py_get(paths, idx))
         /\ pkl' = save_current_index(idx)

\* __init__ (with init_ui): an exception leaves the constructor and ends the
\* process.
Start ==
    /\ phase \in {"off", "crashed"}
    /\ lastOp' = "__init__"
    /\ reported' = <<>>
    /\ deleted_made' = TRUE
    /\ UNCHANGED <<platform, folder, deleted_folder>>
    /\ image_paths' = get_image_paths
    /\ LET loaded == load_last_image_index
       IN  IF loaded.exc # "none"
           THEN /\ err' = loaded.exc
                /\ phase' = "crashed"
                /\ image_name_label' = <<>>
                /\ UNCHANGED <<current_index, pkl>>
           ELSE /\ current_index' = loaded.val
                /\ set_image(get_image_paths, loaded.val)
                /\ phase' = IF set_image_raises(get_image_paths, loaded.val)
                            THEN "crashed" ELSE "running"

\* The user closes the window: the process exits.
Close ==
    /\ phase = "running"
    /\ phase' = "off"
    /\ lastOp' = "close"
    /\ err' = "none"
    /\ reported' = <<>>
    /\ UNCHANGED <<env, pkl, image_paths, current_index, image_name_label>>

\* The bound off by one: the last entry is not taken as the end.
next_image_off_by_one ==
    /\ phase = "running"
    /\ lastOp' = "next_image"
    /\ reported' = <<>>
    /\ UNCHANGED <<env, phase, image_paths>>
    /\ IF current_index < Len(image_paths)
       THEN /\ current_index' = current_index + 1
            /\ set_image(image_paths, current_index + 1)
       ELSE /\ err' = "none"
            /\ UNCHANGED <<current_index, image_name_label, pkl>>

\* next_image
next_image ==
    /\ phase = "running"
    /\ lastOp' = "next_image"
    /\ reported' = <<>>
    /\ UNCHANGED <<env, phase, image_paths>>
    /\ IF current_index < Len(image_paths) - 1
       THEN /\ current_index' = current_index + 1
            /\ set_image(image_paths, current_index + 1)
       ELSE /\ err' = "none"
            /\ UNCHANGED <<current_index, image_name_label, pkl>>

\* The guard off by one: no retreat from the second entry.
last_image_off_by_one ==
    /\ phase = "running"
    /\ lastOp' = "last_image"
    /\ reported' = <<>>
    /\ UNCHANGED <<env, phase, image_paths>>
    /\ IF current_index > 1
       THEN /\ current_index' = current_index - 1
            /\ set_image(image_paths, current_index - 1)
       ELSE /\ err' = "none"
            /\ UNCHANGED <<current_index, image_name_label, pkl>>

\* last_image
last_image ==
    /\ phase = "running"
    /\ lastOp' = "last_image"
    /\ reported' = <<>>
    /\ UNCHANGED <<env, phase, image_paths>>
    /\ IF current_index > 0
       THEN /\ current_index' = current_index - 1
            /\ set_image(image_paths, current_index - 1)
       ELSE /\ err' = "none"
            /\ UNCHANGED <<current_index, image_name_label, pkl>>

\* start_from_first
start_from_first ==
    /\ phase = "running"
    /\ lastOp' = "start_from_first"
    /\ reported' = <<>>
    /\ UNCHANGED <<env, phase, image_paths>>
    /\ current_index' = 0
    /\ set_image(image_paths, 0)

\* jump_to_image_by_name, with `text` in the jump-to box
jump_to_image_by_name(text) ==
    /\ phase = "running"
    /\ lastOp' = "jump_to_image_by_name"
    /\ UNCHANGED <<env, phase, image_paths>>
    /\ LET image_index == py_index(image_paths, path_join(folder_path, text))
       IN  IF image_index >= 0
           THEN /\ reported' = <<>>
                /\ current_index' = image_index
                /\ set_image(image_paths, image_index)
           ELSE /\ reported' = <<"No image named", text>>
                /\ err' = "none"
                /\ UNCHANGED <<current_index, image_name_label, pkl>>

\* os.rename(src, dst) with dst in the deleted folder: on Windows it raises
\* FileExistsError when dst exists; on POSIX it replaces dst silently.
os_rename_raises(name) == platform = "windows" /\ deleted_folder[name] # "absent"

\* The clamp left out: the index stays where it was.
clamp_index_missing(idx, n) == idx

\* The index after the pop: clamped to the new last position.
clamp_index(idx, n) == IF idx >= n THEN n - 1 ELSE idx

\* os.remove in place of os.rename: the file is not kept in deleted/.
delete_image_removes ==
    /\ phase = "running"
    /\ lastOp' = "delete_image"
    /\ reported' = <<>>
    /\ UNCHANGED <<platform, deleted_made, phase, deleted_folder>>
    /\ IF ~py_valid(current_index, Len(image_paths))
       THEN /\ err' = "IndexError"
            /\ UNCHANGED <<folder, image_paths, current_index, image_name_label, pkl>>
       ELSE LET name == basename(py_get(image_paths, current_index))
                popped == py_pop(image_paths, current_index)
                idx == clamp_index(current_index, Len(popped))
            IN  /\ folder' = folder \ {name}
                /\ image_paths' = popped
                /\ current_index' = idx
                /\ set_image(popped, idx)

\* delete_image
delete_image ==
    /\ phase = "running"
    /\ lastOp' = "delete_image"
    /\ reported' = <<>>
    /\ UNCHANGED <<platform, deleted_made, phase>>
    /\ IF ~py_valid(current_index, Len(image_paths))
       THEN /\ err' = "IndexError"
            /\ UNCHANGED <<folder, deleted_folder, image_paths, current_index,
                           image_name_label, pkl>>
       ELSE LET name == basename(py_get(image_paths, current_index))
                popped == py_pop(image_paths, current_index)
                idx == clamp_index(current_index, Len(popped))
            IN  IF os_rename_raises(name)
                THEN /\ err' = "FileExistsError"
                     /\ UNCHANGED <<folder, deleted_folder, image_paths, current_index,
                                    image_name_label, pkl>>
                ELSE /\ folder' = folder \ {name}
                     /\ deleted_folder' = [deleted_folder EXCEPT ![name] = "moved"]
                     /\ image_paths' = popped
                     /\ current_index' = idx
                     /\ set_image(popped, idx)

\* The answer checked the wrong way round: No deletes, Yes does not.
confirm_delete_inverted(response) ==
    IF response = "No"
    THEN delete_image
    ELSE /\ phase = "running"
         /\ lastOp' = "confirm_delete_image"
         /\ reported' = <<>>
         /\ err' = "none"
         /\ UNCHANGED <<env, phase, pkl, image_paths, current_index, image_name_label>>

\* The answer left unchecked: the image is deleted whatever the user says.
confirm_delete_unchecked(response) == delete_image

\* confirm_delete_image, with the user's answer to the message box
confirm_delete_image(response) ==
    IF response = "Yes"
    THEN delete_image
    ELSE /\ phase = "running"
         /\ lastOp' = "confirm_delete_image"
         /\ reported' = <<>>
         /\ err' = "none"
         /\ UNCHANGED <<env, phase, pkl, image_paths, current_index, image_name_label>>

\* ------------------------------------------------------------ UI events
\* The state an event finds, kept for the claims about two events in a row.
snapshot == [index |-> current_index, pkl |-> pkl, paths |-> image_paths]

\* The history of an advance and the retreat that follows it: "advanced" after
\* next_image ran on a running window at a valid index that was not the last,
\* "retreated" when the next event ran last_image; origin is the state the
\* advance found.
trip_after ==
    IF /\ lastOp' = "next_image"
       /\ 0 <= current_index
       /\ current_index < Len(image_paths) - 1
    THEN [stage |-> "advanced", origin |-> snapshot]
    ELSE IF lastOp' = "last_image" /\ trip.stage = "advanced"
    THEN [stage |-> "retreated", origin |-> trip.origin]
    ELSE [stage |-> "none", origin |-> snapshot]

\* Names lying in the deleted folder.
deleted_names == {n \in Universe : deleted_folder[n] # "absent"}

\* __main__: ImageViewer(folder_path) is constructed; init_ui leaves the
\* jump-to box read-only.
run_main ==
    /\ Start
    /\ input_focused' = FALSE
    /\ lastKey' = "none"
    /\ at_start' = [paths |-> image_paths', deleted |-> deleted_names]
    /\ prev' = snapshot
    /\ trip' = trip_after

\* The window is closed and app.exec_() returns.
close_window ==
    /\ Close
    /\ lastKey' = "none"
    /\ prev' = snapshot
    /\ trip' = trip_after
    /\ UNCHANGED <<input_focused, at_start>>

\* A button's clicked signal runs the connected slot; where buttons take the
\* focus on a click the jump-to box loses it.
clicked(slot) ==
    /\ slot
    /\ lastKey' = "none"
    /\ input_focused' \in {input_focused, FALSE}
    /\ prev' = snapshot
    /\ trip' = trip_after
    /\ UNCHANGED at_start

\* IgnoreKeysLineEdit.focusInEvent: setReadOnly(False)
focusInEvent ==
    /\ phase = "running"
    /\ ~input_focused
    /\ input_focused' = TRUE
    /\ lastOp' = "focusInEvent"
    /\ lastKey' = "none"
    /\ err' = "none"
    /\ reported' = <<>>
    /\ prev' = snapshot
    /\ trip' = trip_after
    /\ UNCHANGED <<env, phase, pkl, image_paths, current_index, image_name_label, at_start>>

\* IgnoreKeysLineEdit.focusOutEvent: setReadOnly(True)
focusOutEvent ==
    /\ phase = "running"
    /\ input_focused
    /\ input_focused' = FALSE
    /\ lastOp' = "focusOutEvent"
    /\ lastKey' = "none"
    /\ err' = "none"
    /\ reported' = <<>>
    /\ prev' = snapshot
    /\ trip' = trip_after
    /\ UNCHANGED <<env, phase, pkl, image_paths, current_index, image_name_label, at_start>>

\* Qt.Key_BracketLeft, Qt.Key_BracketRight, Qt.Key_Backslash, and one key that
\* is no shortcut (Qt.Key_X).
Keys == {"[", "]", "\\", "x"}

\* The ignored_keys passed to the jump-to box.
ignored_keys == {"[", "]", "\\"}

\* A plain QLineEdit: every key is kept by the box.
line_edit_accepts_all(key) == TRUE

\* IgnoreKeysLineEdit.keyPressEvent: TRUE when the box keeps the event (the
\* QLineEdit takes the key as text); FALSE when it calls event.ignore(), and Qt
\* then hands the event to the parent widgets up to the window.
line_edit_accepts(key) == key \notin ignored_keys

\* What the user can answer after a key: only backslash opens the message box.
dialog_answers(key) == IF key = "\\" THEN {"Yes", "No"} ELSE {"none"}

\* ImageViewer.keyPressEvent
keyPressEvent(key, response) ==
    CASE key = "[" -> last_image
      [] key = "]" -> next_image
      [] key = "\\" -> confirm_delete_image(response)
      [] OTHER -> /\ phase = "running"
                  /\ lastOp' = "keyPressEvent"
                  /\ err' = "none"
                  /\ reported' = <<>>
                  /\ UNCHANGED <<env, phase, pkl, image_paths, current_index,
                                 image_name_label>>

\* A key is pressed: it goes to the jump-to box when that has the focus, and
\* to the window when the box ignores it or another widget has the focus.
key_pressed(key, response) ==
    /\ phase = "running"
    /\ lastKey' = key
    /\ prev' = snapshot
    /\ UNCHANGED <<input_focused, at_start>>
    /\ IF input_focused /\ line_edit_accepts(key)
       THEN /\ lastOp' = "QLineEdit.keyPressEvent"
            /\ err' = "none"
            /\ reported' = <<>>
            /\ UNCHANGED <<env, phase, pkl, image_paths, current_index, image_name_label>>
       ELSE keyPressEvent(key, response)
    /\ trip' = trip_after

Next ==
    \/ run_main
    \/ close_window
    \/ clicked(next_image)
    \/ clicked(last_image)
    \/ clicked(start_from_first)
    \/ \E text \in JumpTexts : clicked(jump_to_image_by_name(text))
    \/ \E response \in {"Yes", "No"} : clicked(confirm_delete_image(response))
    \/ focusInEvent
    \/ focusOutEvent
    \/ \E key \in Keys : \E response \in dialog_answers(key) : key_pressed(key, response)

Spec == Init /\ [][Next]_vars

\* ------------------------------------------------------------------ claims
\* The window object has a cursor: it is up, or its constructor got as far as
\* the first render.
HasCursor == phase = "running" \/ (phase = "crashed" /\ err = "IndexError")

\* A position of the claims' entries list: 0 .. len-1.
ValidIndex(idx, paths) == 0 <= idx /\ idx <= Len(paths) - 1

\* C1: whenever entries is non-empty, after startup and after every cursor
\* operation, 0 <= index <= len(entries)-1.
C1_CursorInvariant ==
    (HasCursor /\ image_paths # <<>>) => ValidIndex(current_index, image_paths)

\* C2: between two user operations the persisted index equals the in-memory
\* index.
C2_PersistedEqualsIndex ==
    phase = "running" =>
        /\ pkl.exists
        /\ pickle_load(pkl.bytes) = [exc |-> "none", val |-> current_index]

\* C3: a restart after a session restores the index that was current before
\* the restart, designating the image that was last viewed.
C3_SessionResume ==
    [][(Start /\ lastOp = "close") =>
          /\ phase' = "running"
          /\ current_index' = current_index
          /\ image_name_label' = image_name_label]_vars

\* C4: at startup, a persistence file that is absent or cannot be parsed
\* yields index 0 and no read error leaves startup.
C4_LoadRecovery ==
    [][(Start /\ (~pkl.exists \/ pickle_load(pkl.bytes).exc # "none")) =>
          /\ current_index' = 0
          /\ err' \notin {"EOFError", "UnpicklingError"}]_vars

\* C5: at startup, a persisted value that is no valid index of the catalog
\* just built makes the cursor start at 0.
C5_LoadValidation ==
    [][(/\ Start
        /\ pkl.exists
        /\ pickle_load(pkl.bytes).exc = "none"
        /\ ~ValidIndex(pickle_load(pkl.bytes).val, image_paths')) =>
          current_index' = 0]_vars

\* C6: no startup and no operation raises IndexError, whatever the catalog
\* holds.
C6_NoIndexError == err # "IndexError"

\* C7: deleting the only entry completes with entries empty and the render
\* step skipped.
C7_DeleteLastEntry ==
    [][(/\ delete_image
        /\ Len(image_paths) = 1
        /\ ValidIndex(current_index, image_paths)
        /\ err' # "FileExistsError") =>
          /\ image_paths' = <<>>
          /\ err' = "none"]_vars

\* C8: a delete at a valid index whose move succeeded removes that path from
\* entries, shortens entries by one, and leaves the file in the deleted folder
\* and not in the source folder.
C8_DeleteEffect ==
    [][(/\ delete_image
        /\ ValidIndex(current_index, image_paths)
        /\ err' # "FileExistsError") =>
          LET path == image_paths[current_index + 1]
          IN  /\ \A i \in 1..Len(image_paths') : image_paths'[i] # path
              /\ Len(image_paths') = Len(image_paths) - 1
              /\ deleted_folder'[basename(path)] # "absent"
              /\ basename(path) \notin folder']_vars

\* A delete has just moved a file.
C8_Witness ==
    /\ lastOp = "delete_image"
    /\ err = "none"
    /\ \E n \in Universe : deleted_folder[n] = "moved" /\ n \notin folder
    /\ image_paths # <<>>

\* C9: after a delete at the current index the index is unchanged and
\* designates the former successor, unless it is >= the new length, and then
\* it is the new length - 1.
C9_DeleteClamp ==
    [][(/\ delete_image
        /\ ValidIndex(current_index, image_paths)
        /\ err' # "FileExistsError") =>
          IF current_index >= Len(image_paths')
          THEN current_index' = Len(image_paths') - 1
          ELSE /\ current_index' = current_index
               /\ image_paths'[current_index' + 1] = image_paths[current_index + 2]]_vars

\* The scenario of the claim: a.png, b.jpg, c.gif with b.jpg deleted.
C9_Witness ==
    /\ lastOp = "delete_image"
    /\ image_paths = <<path_join(folder_path, a_png), path_join(folder_path, c_gif)>>
    /\ deleted_folder[b_jpg] = "moved"
    /\ current_index = 1
    /\ image_name_label = c_gif

\* C10: a delete whose name already lies in the deleted folder fails with a
\* collision error and changes nothing.
C10_DeleteCollision ==
    [][(/\ delete_image
        /\ ValidIndex(current_index, image_paths)
        /\ deleted_folder[basename(image_paths[current_index + 1])] # "absent") =>
          /\ err' = "FileExistsError"
          /\ UNCHANGED <<image_paths, current_index, pkl, folder, deleted_folder>>]_vars

\* The files of the two folders and the list of entries.
files == <<folder, deleted_folder>>

\* C11: while the window runs, files move and entries shrink only in a step
\* that is a delete request answered Yes; a request answered No changes
\* neither entries, index, pickle file nor the folders.
C11_ConfirmBeforeDelete ==
    [][/\ (phase = "running" /\ (files' # files \/ image_paths' # image_paths)) =>
             (confirm_delete_image("Yes") /\ lastOp' = "delete_image")
       /\ confirm_delete_image("No") =>
             UNCHANGED <<image_paths, current_index, pkl, files>>]_vars

\* A delete request made with the backslash key was answered No while an
\* image was shown.
C11_Witness ==
    /\ lastOp = "confirm_delete_image"
    /\ lastKey = "\\"
    /\ phase = "running"
    /\ image_paths # <<>>

\* C12: a jump to a name that is exactly the base name of an entry sets the
\* index to that entry's position; any other name is reported without an
\* exception and index, entries and pickle file stay as they were.
C12_JumpToName ==
    [][\A text \in JumpTexts :
         jump_to_image_by_name(text) =>
           IF \E i \in 1..Len(image_paths) : basename(image_paths[i]) = text
           THEN /\ ValidIndex(current_index', image_paths)
                /\ basename(image_paths[current_index' + 1]) = text
                /\ image_paths' = image_paths
                /\ err' = "none"
                /\ reported' = <<>>
           ELSE /\ reported' = <<"No image named", text>>
                /\ err' = "none"
                /\ UNCHANGED <<current_index, image_paths, pkl>>]_vars

\* A jump has moved the cursor to another entry.
C12_Witness ==
    /\ lastOp = "jump_to_image_by_name"
    /\ reported = <<>>
    /\ err = "none"
    /\ current_index >= 1
    /\ prev.index # current_index

\* C13: advance at the last index and retreat at index 0 change neither
\* index, entries nor pickle file and raise nothing.
C13_BoundaryNoOps ==
    [][/\ (next_image /\ current_index = Len(image_paths) - 1) =>
             (UNCHANGED <<current_index, image_paths, pkl>> /\ err' = "none")
       /\ (last_image /\ current_index = 0) =>
             (UNCHANGED <<current_index, image_paths, pkl>> /\ err' = "none")]_vars

\* Advance was asked for at the last of several entries.
C13_Witness ==
    /\ lastOp = "next_image"
    /\ Len(image_paths) >= 2
    /\ prev.index = Len(image_paths) - 1
    /\ current_index = prev.index

\* C14: an advance from a valid index that is not the last, followed by a
\* retreat, leaves index, pickle file and entries as the advance found them.
C14_AdvanceRetreat ==
    trip.stage = "retreated" =>
        /\ current_index = trip.origin.index
        /\ pkl = trip.origin.pkl
        /\ pickle_load(pkl.bytes).val = trip.origin.index
        /\ image_paths = trip.origin.paths

\* An advance from the second of three entries was followed by a retreat.
C14_Witness ==
    /\ trip.stage = "retreated"
    /\ trip.origin.index = 1
    /\ Len(image_paths) = 3
    /\ lastOp = "last_image"

\* A name ends in one of the allow-listed extensions, whatever its case.
HasImageSuffix(n) ==
    \E e \in image_extensions :
        /\ Len(n) > Len(e)
        /\ lower(SubSeq(n, Len(n) - Len(e) + 1, Len(n))) = e

\* C15: the list built at startup holds exactly the names directly in the
\* folder that end in .jpg, .jpeg, .png, .bmp or .gif in any case, each joined
\* to the folder path, in ascending name order; names that lie only in the
\* deleted subfolder are not in it.
C15_CatalogBuild ==
    lastOp = "__init__" =>
        /\ {basename(image_paths[i]) : i \in 1..Len(image_paths)} =
               {n \in folder \cup {deleted_name} : HasImageSuffix(n)}
        /\ \A i \in 1..Len(image_paths) :
               image_paths[i] = path_join(folder_path, basename(image_paths[i]))
        /\ \A i, j \in 1..Len(image_paths) :
               i < j => str_less(basename(image_paths[i]), basename(image_paths[j]))

\* A folder with B.JPG, a.png and n.txt was listed while deleted/ held b.jpg.
C15_Witness ==
    /\ lastOp = "__init__"
    /\ phase = "running"
    /\ folder = {B_JPG, a_png, n_txt}
    /\ deleted_folder[b_jpg] = "preexisting"
    /\ image_paths = <<path_join(folder_path, B_JPG), path_join(folder_path, a_png)>>

\* The handlers a shortcut can run.
ShortcutHandlers == {"last_image", "next_image", "delete_image", "confirm_delete_image"}

\* C16 as stated: while the jump-to box has the focus, a press of "[", "]" or
\* "\" runs no retreat, advance or delete and leaves index and entries alone.
C16_ShortcutsOffWhileEditing ==
    [][\A key \in ignored_keys : \A response \in dialog_answers(key) :
         (key_pressed(key, response) /\ input_focused) =>
            /\ lastOp' \notin ShortcutHandlers
            /\ UNCHANGED <<current_index, image_paths>>]_vars

\* C16 as amended: whether or not the jump-to box has the focus, a press of
\* "[", "]" or "\" runs last_image, next_image or confirm_delete_image; any
\* other key runs none of them and changes neither index, entries, pickle file
\* nor the folders.
C16_ShortcutsReachWindow ==
    [][\A key \in Keys : \A response \in dialog_answers(key) :
         key_pressed(key, response) =>
            /\ key = "[" => last_image
            /\ key = "]" => next_image
            /\ key = "\\" => confirm_delete_image(response)
            /\ key \notin ignored_keys =>
                  /\ lastOp' \notin ShortcutHandlers
                  /\ UNCHANGED <<current_index, image_paths, pkl, files>>]_vars

\* "]" was pressed while the jump-to box had the focus, and the cursor advanced.
C16_Witness ==
    /\ input_focused
    /\ lastKey = "]"
    /\ lastOp = "next_image"
    /\ current_index = prev.index + 1

\* Base names of a list of paths.
NamesOf(paths) == {basename(paths[i]) : i \in 1..Len(paths)}

\* s is t with some elements left out.
RECURSIVE IsSubsequence(_, _)
IsSubsequence(s, t) ==
    IF s = <<>> THEN TRUE
    ELSE IF t = <<>> THEN FALSE
    ELSE IF Head(s) = Head(t) THEN IsSubsequence(Tail(s), Tail(t))
    ELSE IsSubsequence(s, Tail(t))

\* C17: when no entry's name lay in the deleted folder at startup, the names
\* in entries and the names in the deleted folder are disjoint, and together
\* they are the entries and the deleted folder's content of startup.
C17_NoImageLost ==
    (lastOp # "none" /\ NamesOf(at_start.paths) \cap at_start.deleted = {}) =>
        /\ NamesOf(image_paths) \cap deleted_names = {}
        /\ NamesOf(image_paths) \cup deleted_names =
               NamesOf(at_start.paths) \cup at_start.deleted

\* Two of three images were deleted into a folder that already held a file.
C17_Witness ==
    /\ lastOp = "delete_image"
    /\ err = "none"
    /\ at_start.deleted # {}
    /\ NamesOf(at_start.paths) \cap at_start.deleted = {}
    /\ Len(at_start.paths) = 3
    /\ Len(image_paths) = 1

\* C18: entries stays strictly ascending by name, without duplicates, and a
\* subsequence of the list built at startup.
C18_OrderPreserved ==
    lastOp # "none" =>
        /\ \A i, j \in 1..Len(image_paths) :
               i < j => /\ str_less(basename(image_paths[i]), basename(image_paths[j]))
                        /\ image_paths[i] # image_paths[j]
        /\ IsSubsequence(image_paths, at_start.paths)

\* The first of three entries was deleted.
C18_Witness ==
    /\ lastOp = "delete_image"
    /\ Len(at_start.paths) = 3
    /\ image_paths = Tail(at_start.paths)

\* C19: advance, retreat, jumpToName and jumpToFirst change neither entries
\* nor the two folders; while the window runs only a delete answered Yes
\* changes them, and entries never gets longer.
C19_NavigationFrame ==
    [][/\ (next_image \/ last_image \/ start_from_first
             \/ \E text \in JumpTexts : jump_to_image_by_name(text)) =>
             UNCHANGED <<image_paths, files>>
       /\ (phase = "running" /\ phase' = "running") =>
             /\ Len(image_paths') <= Len(image_paths)
             /\ <<image_paths, files>>' # <<image_paths, files>> =>
                    \E response \in {"Yes"} : confirm_delete_image(response)]_vars

\* A jump to the first entry from the third left the three entries in place.
C19_Witness ==
    /\ lastOp = "start_from_first"
    /\ prev.index = 2
    /\ current_index = 0
    /\ Len(image_paths) = 3
    /\ image_paths = prev.paths
    /\ image_paths = at_start.paths

====
